---- MODULE Spec2Model ----
(***************************************************************************)
(* pw_tester: the password analysis engine of src/pw_tester.py             *)
(* (class PasswordTester) as a state machine.  A caller invokes one method *)
(* of a PasswordTester with arguments drawn from bounded sets, the method  *)
(* runs to completion, and the caller takes the outcome (a returned value  *)
(* or a raised exception) before it invokes the next one.                  *)
(*                                                                         *)
(* Number representations                                                  *)
(*   int    Python ints are arbitrary precision.  They are modelled as     *)
(*          CPython stores them: little-endian digit sequences in a base   *)
(*          2^k without leading zero digits (zero is << >>).               *)
(*   float  the result of int / int is modelled by the exact quotient      *)
(*          [num, den] of two ints; the rounding to 53 bits is not         *)
(*          modelled, the range of a double is (TrueDivide).               *)
(*   bits   an entropy is modelled by the integer floor(10 * entropy),     *)
(*          the entropy in tenths of a bit cut downwards.  All thresholds  *)
(*          (28, 36, 60, 128) and penalties (0.5, 0.3 per character) are   *)
(*          whole numbers of tenths, so every comparison of the code is    *)
(*          decided exactly on this representation.                        *)
(*   str    a password is a TLA+ string; its characters are its            *)
(*          substrings of length one.  Passwords are ASCII.                *)
(***************************************************************************)
EXTENDS Integers, Sequences, FiniteSets, TLC

\* ------------------------------------------------------------------------
\* Python int: arbitrary-precision naturals as digit sequences, least
\* significant digit first.  A digit has 10 bits, so that a whole column of
\* a product of numbers of up to 2048 digits fits the 32-bit integers of the
\* model checker.  Sums and carries run over ranges cut into parts, and the
\* parts into parts, which keeps the evaluation shallow.
\* ------------------------------------------------------------------------
Base == 2^10

Digit(a, i) == IF 1 <= i /\ i <= Len(a) THEN a[i] ELSE 0

Min2(m, n) == IF m < n THEN m ELSE n

\* the largest element of a non-empty set S of numbers in 1..n
MaxOf(S, n) ==
    LET mirror == {n + 1 - i : i \in S}
    IN  n + 1 - (CHOOSE i \in mirror : \A j \in mirror : i <= j)

\* drop the leading (most significant) zero digits
BigNorm(a) ==
    LET nz == {i \in 1..Len(a) : a[i] # 0}
    IN  IF nz = {} THEN <<>> ELSE SubSeq(a, 1, MaxOf(nz, Len(a)))

RECURSIVE BigOf(_)
BigOf(n) == IF n = 0 THEN <<>> ELSE <<n % Base>> \o BigOf(n \div Base)

\* f[lo] + ... + f[hi]
RECURSIVE SumRange(_, _, _)
SumRange(f, lo, hi) ==
    IF lo > hi THEN 0
    ELSE IF lo = hi THEN f[lo]
    ELSE LET w == (hi - lo) \div 8 + 1
         IN  SumRange(f, lo, Min2(hi, lo + w - 1))
             + SumRange(f, lo + w, Min2(hi, lo + 2 * w - 1))
             + SumRange(f, lo + 2 * w, Min2(hi, lo + 3 * w - 1))
             + SumRange(f, lo + 3 * w, Min2(hi, lo + 4 * w - 1))
             + SumRange(f, lo + 4 * w, Min2(hi, lo + 5 * w - 1))
             + SumRange(f, lo + 5 * w, Min2(hi, lo + 6 * w - 1))
             + SumRange(f, lo + 6 * w, Min2(hi, lo + 7 * w - 1))
             + SumRange(f, lo + 7 * w, hi)

\* Carry propagation over the columns cols[lo..hi], entered with carry c: the
\* digits of the columns and the carry that leaves them.  CarryOn continues
\* the propagation p over the next columns.
RECURSIVE Carry(_, _, _, _)
CarryTo(p, q) == [digits |-> p.digits \o q.digits, carry |-> q.carry]

CarryOn(p, cols, lo, hi) == CarryTo(p, Carry(cols, lo, hi, p.carry))

CarryOne(s) == [digits |-> <<s % Base>>, carry |-> s \div Base]

CarryParts(cols, lo, hi, c, w) ==
    CarryOn(CarryOn(CarryOn(Carry(cols, lo, Min2(hi, lo + w - 1), c),
                            cols, lo + w, Min2(hi, lo + 2 * w - 1)),
                    cols, lo + 2 * w, Min2(hi, lo + 3 * w - 1)),
            cols, lo + 3 * w, hi)

Carry(cols, lo, hi, c) ==
    IF lo > hi THEN [digits |-> <<>>, carry |-> c]
    ELSE IF lo = hi THEN CarryOne(cols[lo] + c)
    ELSE CarryParts(cols, lo, hi, c, (hi - lo) \div 4 + 1)

\* the number whose columns are cols; the last carry is less than Base^2 and
\* leaves through two more columns
Carried(cols) ==
    BigNorm(Carry(cols \o <<0, 0>>, 1, Len(cols) + 2, 0).digits)

BigAdd(a, b) ==
    Carried([i \in 1..(IF Len(a) > Len(b) THEN Len(a) ELSE Len(b)) |->
                Digit(a, i) + Digit(b, i)])

\* a - b for a >= b
BigSub(a, b) == Carried([i \in 1..Len(a) |-> a[i] - Digit(b, i)])

\* a * b: column k of the product is the sum of the a[i] * b[j] with
\* i + j = k + 1
BigMul(a, b) ==
    IF a = <<>> \/ b = <<>> THEN <<>>
    ELSE Carried([k \in 1..(Len(a) + Len(b) - 1) |->
            LET lo == IF k > Len(b) THEN k + 1 - Len(b) ELSE 1
                hi == Min2(k, Len(a))
            IN  SumRange([i \in lo..hi |-> a[i] * b[k + 1 - i]], lo, hi)])

\* a ** n (Python: 0 ** 0 = 1) by squaring: a ** n is h * h, times a for an
\* odd n, where h is a ** (n // 2)
BigPowStep(h, f) == IF h = <<>> THEN <<>> ELSE BigMul(BigMul(h, h), f)

RECURSIVE BigPow(_, _)
BigPow(a, n) ==
    IF n = 0 THEN <<1>>
    ELSE IF n = 1 THEN a
    ELSE BigPowStep(BigPow(a, n \div 2), IF n % 2 = 1 THEN a ELSE <<1>>)

\* a < b: the longer number is the larger one; numbers of equal length compare
\* at the most significant digit in which they differ
BigLess(a, b) ==
    IF Len(a) # Len(b) THEN Len(a) < Len(b)
    ELSE LET diff == {i \in 1..Len(a) : a[i] # b[i]}
         IN  IF diff = {} THEN FALSE
             ELSE a[MaxOf(diff, Len(a))] < b[MaxOf(diff, Len(a))]

BigLeq(a, b) == ~BigLess(b, a)

\* a // 2
BigHalf(a) ==
    BigNorm([i \in 1..Len(a) |-> (a[i] \div 2) + (Digit(a, i + 1) % 2) * (Base \div 2)])

\* int.bit_length()
RECURSIVE BitLengthSmall(_)
BitLengthSmall(n) == IF n = 0 THEN 0 ELSE 1 + BitLengthSmall(n \div 2)

BitLength(a) ==
    IF a = <<>> THEN 0 ELSE 10 * (Len(a) - 1) + BitLengthSmall(a[Len(a)])

\* ------------------------------------------------------------------------
\* Python str.  A string is a sequence of characters; a character is a string
\* of length one.
\* ------------------------------------------------------------------------
At(s, i) == SubSeq(s, i, i)

CharsOf(s) == {At(s, i) : i \in 1..Len(s)}

\* c in s, for a character c and a string s
In(c, s) == \E i \in 1..Len(s) : At(s, i) = c

\* the constants of module string
ascii_lowercase == "abcdefghijklmnopqrstuvwxyz"
ascii_uppercase == "ABCDEFGHIJKLMNOPQRSTUVWXYZ"
digits == "0123456789"

IndexIn(c, s) == CHOOSE i \in 1..Len(s) : At(s, i) = c

\* str.lower() of one character.  The passwords of the model are ASCII, and
\* so are the character tests below.
LowerChar(c) ==
    IF In(c, ascii_uppercase) THEN At(ascii_lowercase, IndexIn(c, ascii_uppercase))
    ELSE c

islower(c) == In(c, ascii_lowercase)
isupper(c) == In(c, ascii_uppercase)
isdigit(c) == In(c, digits)

\* ------------------------------------------------------------------------
\* class PasswordTester: its class attributes and what __init__ sets
\* ------------------------------------------------------------------------
AttackScenario ==
    <<"basic_cpu", "modern_cpu", "gpu_single", "gpu_cluster", "quantum_future">>

\* attempts per second of each scenario, in the order of the dict
ATTACK_SPEEDS ==
    [i \in 1..Len(AttackScenario) |->
        [scenario |-> AttackScenario[i],
         speed    |-> BigPow(BigOf(10), <<6, 8, 10, 12, 15>>[i])]]

CHARACTER_SETS ==
    [lowercase |-> ascii_lowercase,
     uppercase |-> ascii_uppercase,
     digits    |-> digits,
     special   |-> "!@#$%^&*()_+-=[]{}|;:,.<>?",
     space     |-> " "]

\* The five regular expressions of self.common_patterns.  `re` is the source
\* text; the other fields say what it matches at a position: a run of at least
\* `min` characters of class `class`, a run of at least `min` copies of one
\* character, or one of a set of words.  `group` is what capture group 1
\* holds ("none": the pattern has no group).
NumberSequences ==
    {SubSeq(digits, i, i + 2) : i \in 1..8} \cup {"890"}

LetterSequences ==
    {SubSeq(ascii_lowercase, i, i + 2) : i \in 1..24}

common_patterns ==
    << [re |-> "\\d{4,}", kind |-> "run", class |-> "digit", min |-> 4,
        words |-> {}, group |-> "none"],
       [re |-> "[a-zA-Z]{8,}", kind |-> "run", class |-> "letter", min |-> 8,
        words |-> {}, group |-> "none"],
       [re |-> "(.)\\1{2,}", kind |-> "same", class |-> "any", min |-> 3,
        words |-> {}, group |-> "first"],
       [re |-> "(012|123|234|345|456|567|678|789|890)", kind |-> "words",
        class |-> "any", min |-> 3, words |-> NumberSequences, group |-> "all"],
       [re |-> "(abc|bcd|cde|def|efg|fgh|ghi|hij|ijk|jkl|klm|lmn|mno|nop|opq|pqr|qrs|rst|stu|tuv|uvw|vwx|wxy|xyz)",
        kind |-> "words", class |-> "any", min |-> 3, words |-> LetterSequences,
        group |-> "all"] >>

\* ------------------------------------------------------------------------
\* Module re, as far as the five patterns use it (flag re.IGNORECASE)
\* ------------------------------------------------------------------------
\* \d and [a-zA-Z] under re.IGNORECASE
InClass(c, class) ==
    CASE class = "digit"  -> In(c, digits)
      [] class = "letter" -> In(LowerChar(c), ascii_lowercase)
      [] OTHER            -> TRUE

\* The number of consecutive positions from i on whose character satisfies
\* the test of the pattern: in the class, or a copy (ignoring case) of s[i].
RunLength(pattern, s, i) ==
    LET ok(j) == IF pattern.kind = "same"
                 THEN LowerChar(At(s, j)) = LowerChar(At(s, i))
                 ELSE InClass(At(s, j), pattern.class)
        stop  == {j \in i..Len(s) : ~ok(j)}
    IN  IF stop = {} THEN Len(s) + 1 - i
        ELSE (CHOOSE j \in stop : \A k \in stop : j <= k) - i

\* The length of the match of pattern that starts at position i of s, 0 when
\* there is none.  Quantifiers are greedy, so a run is matched whole.
MatchLength(pattern, s, i) ==
    IF pattern.kind = "words"
    THEN IF i + 2 <= Len(s)
            /\ \E w \in pattern.words :
                   \A k \in 1..3 : LowerChar(At(s, i + k - 1)) = At(w, k)
         THEN 3 ELSE 0
    ELSE IF RunLength(pattern, s, i) >= pattern.min
         THEN RunLength(pattern, s, i) ELSE 0

\* re.finditer over the positions lo..hi of s, entered with the scan standing
\* at position `at` (the end of the last match, or before lo): a position
\* the scan has passed starts no match, any other starts one when the pattern
\* matches there, and the scan goes on after the match.  The matches found,
\* leftmost first, and where the scan stands after hi.
RECURSIVE Scan(_, _, _, _, _)
Scan(pattern, s, lo, hi, at) ==
    IF lo > hi THEN [found |-> <<>>, at |-> at]
    ELSE IF lo = hi
    THEN LET n == IF lo < at THEN 0 ELSE MatchLength(pattern, s, lo)
         IN  IF n > 0
             THEN [found |-> <<[start |-> lo, len |-> n]>>, at |-> lo + n]
             ELSE [found |-> <<>>, at |-> at]
    ELSE LET w  == (hi - lo) \div 4 + 1
             p1 == Scan(pattern, s, lo, Min2(hi, lo + w - 1), at)
             p2 == Scan(pattern, s, lo + w, Min2(hi, lo + 2 * w - 1), p1.at)
             p3 == Scan(pattern, s, lo + 2 * w, Min2(hi, lo + 3 * w - 1), p2.at)
             p4 == Scan(pattern, s, lo + 3 * w, hi, p3.at)
         IN  [found |-> p1.found \o p2.found \o p3.found \o p4.found,
              at    |-> p4.at]

\* the non-overlapping matches of pattern in s, leftmost first
Matches(pattern, s) == Scan(pattern, s, 1, Len(s), 1).found

\* re.findall: for a pattern with one capture group the list of what the
\* group captured, for a pattern without groups the list of the matches
findall(pattern, s) ==
    LET ms == Matches(pattern, s)
    IN  [k \in 1..Len(ms) |->
            IF pattern.group = "first"
            THEN At(s, ms[k].start)
            ELSE SubSeq(s, ms[k].start, ms[k].start + ms[k].len - 1)]

\* re.search(...) is not None
search(pattern, s) == \E i \in 1..Len(s) : MatchLength(pattern, s, i) > 0

\* len("".join(strings))
JoinedLength(strings) ==
    SumRange([k \in 1..Len(strings) |-> Len(strings[k])], 1, Len(strings))

\* ------------------------------------------------------------------------
\* Outcomes of a call, and floats
\* ------------------------------------------------------------------------
Return(v) == [kind |-> "return", value |-> v]

Raise(type, message) == [kind |-> "raise", type |-> type, message |-> message]

\* An entropy of n bits, in the unit of the model (a tenth of a bit).
Bits(n) == 10 * n

\* The least quotient that no longer rounds to a double: 2^1024 - 2^970, half
\* way between the largest double and 2^1024.
FloatOverflow ==
    BigMul(BigSub(BigPow(<<2>>, 54), <<1>>), BigPow(<<2>>, 970))

\* a / b for ints a >= 0, b > 0: the quotient as a float, or OverflowError
\* when it is beyond the range of a double, a >= FloatOverflow * b (which no
\* a shorter than FloatOverflow is).
TrueDivide(a, b) ==
    IF Len(a) >= Len(FloatOverflow) /\ BigLeq(BigMul(FloatOverflow, b), a)
    THEN Raise("OverflowError", "integer division result too large for a float")
    ELSE Return([num |-> a, den |-> b])

\* x < n and x / n for a float x and an int n > 0
FloatLess(x, n) == BigLess(x.num, BigMul(x.den, n))

FloatDiv(x, n) == [num |-> x.num, den |-> BigMul(x.den, n)]

\* floor(a / b) for ints with q * b <= a < (q + 10 * step) * b, found one
\* decimal digit at a time: the digit at `step` is the number of the
\* e in 1..9 with (q + e * step) * b <= a
QuotientDigit(a, b, q, step) ==
    Cardinality({e \in 1..9 : BigLeq(BigMul(b, BigOf(q + e * step)), a)})

RECURSIVE FloorDivFrom(_, _, _, _)
FloorDivFrom(a, b, q, step) ==
    IF step = 0 THEN q
    ELSE FloorDivFrom(a, b, q + step * QuotientDigit(a, b, q, step), step \div 10)

\* floor(a / b) for ints with a < 10^4 * b
FloorDiv(a, b) == FloorDivFrom(a, b, 0, 10^3)

\* a / b rounded to an int, ties to the even one, from q = floor(a / b) and
\* r2 = 2 * (a - q * b)
RoundFrom(q, r2, b) ==
    IF BigLess(b, r2) \/ (r2 = b /\ q % 2 = 1) THEN q + 1 ELSE q

RoundAt(a, b, q) == RoundFrom(q, BigMul(BigSub(a, BigMul(b, BigOf(q))), <<2>>), b)

RoundDiv(a, b) == RoundAt(a, b, FloorDiv(a, b))

\* the digits of n / 10^places with `places` decimals, places in {1, 3}
FixedDigits(n, scale) ==
    ToString(n \div scale) \o "."
    \o (IF scale > 100 /\ n % scale < 100 THEN "0" ELSE "")
    \o (IF scale > 10 /\ n % scale < 10 THEN "0" ELSE "")
    \o ToString(n % scale)

\* f"{x:.<places>f}" for a float 0 <= x < 1000: x rounded to `places`
\* decimals, ties to the even digit, as digits with a decimal point
FormatFixed(x, places) ==
    FixedDigits(RoundDiv(BigMul(x.num, BigOf(10^places)), x.den), 10^places)

\* ------------------------------------------------------------------------
\* The methods of PasswordTester
\* ------------------------------------------------------------------------
\* A method reads the attributes of its tester through self.  The operators
\* named ...In and ...With are the method bodies with the attribute they read
\* as a parameter; the methods themselves are these bodies for the attributes
\* of a tester as it is constructed.
\* any(c in self.CHARACTER_SETS[name] for c in password)
HasClassIn(sets, password, name) ==
    \E i \in 1..Len(password) : In(At(password, i), sets[name])

HasClass(password, name) == HasClassIn(CHARACTER_SETS, password, name)

\* one "if any(...): character_space += len(...)" of analyze_character_space
ClassSpaceIn(sets, password, name) ==
    IF HasClassIn(sets, password, name) THEN Len(sets[name]) ELSE 0

ClassSpace(password, name) == ClassSpaceIn(CHARACTER_SETS, password, name)

CharacterSpaceIn(sets, password) ==
    ClassSpaceIn(sets, password, "lowercase") + ClassSpaceIn(sets, password, "uppercase")
    + ClassSpaceIn(sets, password, "digits") + ClassSpaceIn(sets, password, "special")
    + ClassSpaceIn(sets, password, "space")

\* Variants of analyze_character_space that the properties must tell from the
\* code: one that forgets the space class, and one that adds the size of the
\* class of every character, however often the class occurs.
analyze_character_space_without_space(password) ==
    ClassSpace(password, "lowercase") + ClassSpace(password, "uppercase")
    + ClassSpace(password, "digits") + ClassSpace(password, "special")

analyze_character_space_per_character(password) ==
    SumRange([i \in 1..Len(password) |->
                 ClassSpace(At(password, i), "lowercase")
                 + ClassSpace(At(password, i), "uppercase")
                 + ClassSpace(At(password, i), "digits")
                 + ClassSpace(At(password, i), "special")
                 + ClassSpace(At(password, i), "space")], 1, Len(password))

analyze_character_space(password) == CharacterSpaceIn(CHARACTER_SETS, password)

\* len(password) * math.log2(character_space), in tenths of a bit cut
\* downwards: floor(log2(character_space ** (10 * len(password))))
base_entropy(password, character_space) ==
    BitLength(BigPow(BigOf(character_space), 10 * Len(password))) - 1

\* what one pattern adds to pattern_penalty, in tenths of a bit (0.5 = 5 tenths)
PatternPenalty(pattern, password) ==
    LET matches == findall(pattern, password)
    IN  IF matches # <<>> THEN JoinedLength(matches) * 5 ELSE 0

\* pattern_penalty after the loop over the patterns
pattern_penalty(patterns, password) ==
    SumRange([k \in 1..Len(patterns) |-> PatternPenalty(patterns[k], password)],
             1, Len(patterns))

\* (len(password) - len(set(password.lower()))) * 0.3, in tenths of a bit
repetition_penalty(password) ==
    (Len(password) - Cardinality({LowerChar(c) : c \in CharsOf(password)})) * 3

\* a variant of calculate_entropy without the final max(0, ...)
calculate_entropy_unfloored(password, character_space) ==
    IF character_space = 0 \/ Len(password) = 0 THEN 0
    ELSE base_entropy(password, character_space)
         - pattern_penalty(common_patterns, password)
         - repetition_penalty(password)

\* character_space is a size: an int >= 0
EntropyWith(patterns, password, character_space) ==
    IF character_space = 0 \/ Len(password) = 0 THEN 0
    ELSE LET adjusted_entropy ==
                 base_entropy(password, character_space)
                 - pattern_penalty(patterns, password)
                 - repetition_penalty(password)
         IN  IF adjusted_entropy > 0 THEN adjusted_entropy ELSE 0

calculate_entropy(password, character_space) ==
    EntropyWith(common_patterns, password, character_space)

\* a variant of get_complexity_score whose thresholds belong to the lower
\* bracket
get_complexity_score_inclusive(entropy) ==
    IF entropy <= Bits(28) THEN "Very Weak"
    ELSE IF entropy <= Bits(36) THEN "Weak"
    ELSE IF entropy <= Bits(60) THEN "Medium"
    ELSE IF entropy <= Bits(128) THEN "Strong"
    ELSE "Very Strong"

get_complexity_score(entropy) ==
    IF entropy < Bits(28) THEN "Very Weak"
    ELSE IF entropy < Bits(36) THEN "Weak"
    ELSE IF entropy < Bits(60) THEN "Medium"
    ELSE IF entropy < Bits(128) THEN "Strong"
    ELSE "Very Strong"

\* the return statement of a branch of format_time
FormatBranch(branch) ==
    IF branch.places = 0 THEN branch.text
    ELSE FormatFixed(branch.value, branch.places) \o branch.text

\* The if/elif chain chooses the value, the number of decimals and the unit
\* that the return statement of the branch formats.
TimeBranch(seconds) ==
    IF FloatLess(seconds, BigOf(1))
    THEN [value |-> seconds, places |-> 3, text |-> " seconds"]
    ELSE IF FloatLess(seconds, BigOf(60))
    THEN [value |-> seconds, places |-> 1, text |-> " seconds"]
    ELSE IF FloatLess(seconds, BigOf(3600))
    THEN [value |-> FloatDiv(seconds, BigOf(60)), places |-> 1,
          text |-> " minutes"]
    ELSE IF FloatLess(seconds, BigOf(86400))
    THEN [value |-> FloatDiv(seconds, BigOf(3600)), places |-> 1,
          text |-> " hours"]
    ELSE IF FloatLess(seconds, BigOf(31536000))
    THEN [value |-> FloatDiv(seconds, BigOf(86400)), places |-> 1,
          text |-> " days"]
    ELSE IF FloatLess(seconds, BigMul(BigOf(31536000), BigOf(1000)))
    THEN [value |-> FloatDiv(seconds, BigOf(31536000)), places |-> 1,
          text |-> " years"]
    ELSE [value |-> seconds, places |-> 0,
          text |-> "Practically uncrackable (> 1000 years)"]

\* a variant of format_time whose breakpoints belong to the lower bracket
FloatLeq(x, n) == BigLeq(x.num, BigMul(x.den, n))

TimeBranchInclusive(seconds) ==
    IF FloatLeq(seconds, BigOf(1))
    THEN [value |-> seconds, places |-> 3, text |-> " seconds"]
    ELSE IF FloatLeq(seconds, BigOf(60))
    THEN [value |-> seconds, places |-> 1, text |-> " seconds"]
    ELSE IF FloatLeq(seconds, BigOf(3600))
    THEN [value |-> FloatDiv(seconds, BigOf(60)), places |-> 1,
          text |-> " minutes"]
    ELSE IF FloatLeq(seconds, BigOf(86400))
    THEN [value |-> FloatDiv(seconds, BigOf(3600)), places |-> 1,
          text |-> " hours"]
    ELSE IF FloatLeq(seconds, BigOf(31536000))
    THEN [value |-> FloatDiv(seconds, BigOf(86400)), places |-> 1,
          text |-> " days"]
    ELSE IF FloatLeq(seconds, BigMul(BigOf(31536000), BigOf(1000)))
    THEN [value |-> FloatDiv(seconds, BigOf(31536000)), places |-> 1,
          text |-> " years"]
    ELSE [value |-> seconds, places |-> 0,
          text |-> "Practically uncrackable (> 1000 years)"]

format_time_inclusive(seconds) == FormatBranch(TimeBranchInclusive(seconds))

format_time(seconds) == FormatBranch(TimeBranch(seconds))

\* The loop over speeds.items(), entered with avg_attempts: it inserts one
\* entry times[scenario.value] per scenario, in the order of speeds; the dict
\* returned is the sequence of its entries in insertion order.  The first
\* division that raises ends the loop and the call with its exception.
TimesOf(seconds, speeds) ==
    IF \E i \in 1..Len(speeds) : seconds[i].kind = "raise"
    THEN seconds[CHOOSE i \in 1..Len(speeds) :
                    /\ seconds[i].kind = "raise"
                    /\ \A j \in 1..(i - 1) : seconds[j].kind = "return"]
    ELSE Return([i \in 1..Len(speeds) |->
                    [key   |-> speeds[i].scenario,
                     value |-> format_time(seconds[i].value)]])

BruteForceLoop(avg_attempts, speeds) ==
    TimesOf([i \in 1..Len(speeds) |-> TrueDivide(avg_attempts, speeds[i].speed)],
            speeds)

\* a variant of calculate_brute_force_time that divides all the combinations,
\* not half of them
calculate_brute_force_time_of_all(total_combinations) ==
    BruteForceLoop(total_combinations, ATTACK_SPEEDS)

\* total_combinations is an int >= 0
calculate_brute_force_time(total_combinations) ==
    BruteForceLoop(BigHalf(total_combinations), ATTACK_SPEEDS)

\* what the loop over self.common_patterns appends: the warning at the first
\* pattern that matches, and then the loop ends (break)
PatternWarningWith(patterns, password) ==
    IF \E k \in 1..Len(patterns) : search(patterns[k], password)
    THEN <<"Avoid predictable patterns and sequences">> ELSE <<>>

PatternWarning(password) == PatternWarningWith(common_patterns, password)

\* what the loop would append without the break: the warning at every pattern
\* that matches
RECURSIVE PatternWarnings(_, _)
PatternWarnings(password, k) ==
    IF k > Len(common_patterns) THEN <<>>
    ELSE (IF search(common_patterns[k], password)
          THEN <<"Avoid predictable patterns and sequences">> ELSE <<>>)
         \o PatternWarnings(password, k + 1)

\* the final "if not recommendations"
OrGood(recommendations) ==
    IF recommendations = <<>>
    THEN <<"Your password has good complexity!">>
    ELSE recommendations

\* The list `recommendations` before the final "if not recommendations",
\* given the special characters (self.CHARACTER_SETS["special"]) and what the
\* loop over the patterns appends.
Advice(password, entropy, special, warnings) ==
    (IF Len(password) < 12 THEN <<"Use at least 12 characters">> ELSE <<>>)
    \o (IF ~\E c \in CharsOf(password) : islower(c)
        THEN <<"Add lowercase letters">> ELSE <<>>)
    \o (IF ~\E c \in CharsOf(password) : isupper(c)
        THEN <<"Add uppercase letters">> ELSE <<>>)
    \o (IF ~\E c \in CharsOf(password) : isdigit(c)
        THEN <<"Add numbers">> ELSE <<>>)
    \o (IF ~\E c \in CharsOf(password) : In(c, special)
        THEN <<"Add special characters">> ELSE <<>>)
    \o warnings
    \o (IF entropy < Bits(60)
        THEN <<"Increase complexity for better security">> ELSE <<>>)

\* generate_recommendations, given what the loop over the patterns appends
Recommendations(password, entropy, warnings) ==
    OrGood(Advice(password, entropy, CHARACTER_SETS.special, warnings))

\* a variant of generate_recommendations without the final
\* "if not recommendations"
generate_recommendations_without_good(password, entropy) ==
    Advice(password, entropy, CHARACTER_SETS.special, PatternWarning(password))

\* a variant of generate_recommendations whose loop has no break
generate_recommendations_without_break(password, entropy) ==
    Recommendations(password, entropy, PatternWarnings(password, 1))

generate_recommendations(password, entropy) ==
    Recommendations(password, entropy, PatternWarning(password))

\* The outcome of analyze_password and the methods it has called, in order,
\* when it returns or raises.  Analysis is the return statement, reached with
\* the value of every local; a raise of calculate_brute_force_time leaves
\* analyze_password before generate_recommendations is called.
Analysis(password, character_space, entropy, total_combinations, brute_force_times) ==
    IF brute_force_times.kind = "raise"
    THEN [outcome |-> brute_force_times,
          calls   |-> <<"analyze_character_space", "calculate_entropy",
                        "get_complexity_score", "calculate_brute_force_time">>]
    ELSE [outcome |-> Return(
                        [password_length    |-> Len(password),
                         character_space    |-> character_space,
                         entropy_bits       |-> entropy,
                         total_combinations |-> total_combinations,
                         complexity_score   |-> get_complexity_score(entropy),
                         brute_force_times  |-> brute_force_times.value,
                         recommendations    |->
                             generate_recommendations(password, entropy)]),
          calls   |-> <<"analyze_character_space", "calculate_entropy",
                        "get_complexity_score", "calculate_brute_force_time",
                        "generate_recommendations">>]

\* the statements after total_combinations is known
AnalyzeCombinations(password, character_space, total_combinations) ==
    Analysis(password, character_space,
             calculate_entropy(password, character_space),
             total_combinations,
             calculate_brute_force_time(total_combinations))

AnalyzeSpace(password, character_space) ==
    AnalyzeCombinations(password, character_space,
                        BigPow(BigOf(character_space), Len(password)))

\* a variant of analyze_password without the check of the empty password
analyze_password_unchecked(password) ==
    AnalyzeSpace(password, analyze_character_space(password))

analyze_password(password) ==
    IF password = ""
    THEN [outcome |-> Raise("ValueError", "Password cannot be empty"),
          calls   |-> <<>>]
    ELSE AnalyzeSpace(password, analyze_character_space(password))

\* ------------------------------------------------------------------------
\* analyze_password statement by statement, for calls that run at the same
\* time on one tester.  `self` is the tester: the attributes its methods
\* read.  A frame is one call in progress: the statement it stands at (pc),
\* its argument, its local variables and, when it has ended, its result.
\* ------------------------------------------------------------------------
PasswordTester ==
    [ATTACK_SPEEDS   |-> ATTACK_SPEEDS,
     CHARACTER_SETS  |-> CHARACTER_SETS,
     common_patterns |-> common_patterns]

Unset == [kind |-> "unset"]

IdleFrame ==
    [pc |-> "idle", password |-> "", character_space |-> Unset,
     entropy |-> Unset, total_combinations |-> Unset,
     complexity_score |-> Unset, brute_force_times |-> Unset,
     recommendations |-> Unset, result |-> Unset]

\* the frame of a call of analyze_password(password) that has just begun
FrameOf(password) == [IdleFrame EXCEPT !.pc = "check", !.password = password]

\* brute_force_times = self.calculate_brute_force_time(total_combinations):
\* the local is assigned, or the exception leaves analyze_password
AssignTimes(frame, times) ==
    IF times.kind = "raise"
    THEN [frame EXCEPT !.pc = "raised", !.result = times]
    ELSE [frame EXCEPT !.pc = "recommendations", !.brute_force_times = times.value]

\* the frame after the statement it stands at
Statement(self, frame) ==
    CASE frame.pc = "check" ->
             IF frame.password = ""
             THEN [frame EXCEPT
                      !.pc = "raised",
                      !.result = Raise("ValueError", "Password cannot be empty")]
             ELSE [frame EXCEPT !.pc = "character_space"]
      [] frame.pc = "character_space" ->
             [frame EXCEPT
                 !.pc = "entropy",
                 !.character_space =
                     CharacterSpaceIn(self.CHARACTER_SETS, frame.password)]
      [] frame.pc = "entropy" ->
             [frame EXCEPT
                 !.pc = "total_combinations",
                 !.entropy = EntropyWith(self.common_patterns, frame.password,
                                         frame.character_space)]
      [] frame.pc = "total_combinations" ->
             [frame EXCEPT
                 !.pc = "complexity_score",
                 !.total_combinations =
                     BigPow(BigOf(frame.character_space), Len(frame.password))]
      [] frame.pc = "complexity_score" ->
             [frame EXCEPT
                 !.pc = "brute_force_times",
                 !.complexity_score = get_complexity_score(frame.entropy)]
      [] frame.pc = "brute_force_times" ->
             AssignTimes(frame, BruteForceLoop(BigHalf(frame.total_combinations),
                                               self.ATTACK_SPEEDS))
      [] frame.pc = "recommendations" ->
             [frame EXCEPT
                 !.pc = "return",
                 !.recommendations =
                     OrGood(Advice(frame.password, frame.entropy,
                                   self.CHARACTER_SETS.special,
                                   PatternWarningWith(self.common_patterns,
                                                      frame.password)))]
      [] frame.pc = "return" ->
             [frame EXCEPT
                 !.pc = "returned",
                 !.result =
                     Return([password_length    |-> Len(frame.password),
                             character_space    |-> frame.character_space,
                             entropy_bits       |-> frame.entropy,
                             total_combinations |-> frame.total_combinations,
                             complexity_score   |-> frame.complexity_score,
                             brute_force_times  |-> frame.brute_force_times,
                             recommendations    |-> frame.recommendations])]

\* a statement that, as a cache would, keeps only the patterns that matched
\* the password of this call in self.common_patterns
ExecuteCachingPatterns(self, frame) ==
    [self  |-> IF frame.pc = "entropy"
               THEN [self EXCEPT !.common_patterns =
                        SelectSeq(@, LAMBDA pattern : search(pattern, frame.password))]
               ELSE self,
     frame |-> Statement(self, frame)]

\* The tester and the frame after the statement the frame stands at: no
\* statement of analyze_password or of the methods it calls assigns to an
\* attribute of self.
Execute(self, frame) == [self |-> self, frame |-> Statement(self, frame)]

\* ------------------------------------------------------------------------
\* The arguments the callers pass
\* ------------------------------------------------------------------------
MaxLen == 2
MaxWords == 2
OverlongLen == 162
MaxEntropy == 130
MaxDelta == 12
MaxPower == 12

\* a letter in both cases, a digit, and a character ("~") of no class
Alphabet == {"a", "A", "1", "~"}

RECURSIVE StringsOfLen(_)
StringsOfLen(n) ==
    IF n = 0 THEN {""}
    ELSE {s \o c : s \in StringsOfLen(n - 1), c \in Alphabet}

\* pieces that make the patterns match, and pieces that do not
Words == {"abc", "1234", "aaa", "Password", "Zq7!"}

RECURSIVE Phrases(_)
Phrases(n) ==
    IF n = 0 THEN {""}
    ELSE {s \o w : s \in Phrases(n - 1), w \in Words}

\* one password for every combination of the five character classes
Mixes ==
    {(IF l THEN "a" ELSE "") \o (IF u THEN "B" ELSE "") \o (IF d THEN "1" ELSE "")
     \o (IF p THEN "!" ELSE "") \o (IF b THEN " " ELSE "") :
        l \in BOOLEAN, u \in BOOLEAN, d \in BOOLEAN, p \in BOOLEAN, b \in BOOLEAN}

\* the passwords of the demo mode (main) and of the tests
Examples ==
    {"123456", "password", "Password123", "MyS3cur3P@ssw0rd!",
     "correct horse battery staple", "Abc1!", "Abc123!"}

Passwords ==
    UNION {StringsOfLen(n) : n \in 0..MaxLen}
    \cup UNION {Phrases(n) : n \in 1..MaxWords}
    \cup Mixes
    \cup Examples

\* u repeated n times
Twice(s) == s \o s

RECURSIVE Repeat(_, _)
Repeat(u, n) ==
    IF n = 0 THEN ""
    ELSE Twice(Repeat(u, n \div 2)) \o (IF n % 2 = 1 THEN u ELSE "")

\* a password of OverlongLen characters of the four printable classes
Overlong == SubSeq(Repeat("aB1!", OverlongLen \div 4 + 1), 1, OverlongLen)

\* character spaces: what the classes can add up to, and other sizes
CharacterSpaces == {0, 1, 2, 26, 89, 100}

\* entropies, in tenths of a bit
Entropies == 0..Bits(MaxEntropy)

\* the numbers format_time compares seconds with
Breakpoints ==
    {BigOf(1), BigOf(60), BigOf(3600), BigOf(86400), BigOf(31536000),
     BigMul(BigOf(31536000), BigOf(1000))}

\* floats: the thousandths from 0 on and around the breakpoints
Seconds ==
    {[num |-> BigOf(d), den |-> BigOf(1000)] : d \in 0..MaxDelta}
    \cup {[num |-> BigAdd(BigMul(t, BigOf(1000)), BigOf(d)), den |-> BigOf(1000)] :
             t \in Breakpoints, d \in 0..MaxDelta}
    \cup {[num |-> BigSub(BigMul(t, BigOf(1000)), BigOf(d)), den |-> BigOf(1000)] :
             t \in Breakpoints, d \in 1..MaxDelta}

\* combination counts character_space ** length
Totals ==
    {BigPow(BigOf(c), n) : c \in {0, 1, 10, 26, 62, 88, 89}, n \in 1..MaxPower}
    \cup {BigPow(BigOf(10), 50), BigPow(BigOf(88), OverlongLen)}

\* ------------------------------------------------------------------------
\* get_password_with_asterisks, the path of Unix.  A character is the
\* sequence of its code point, the empty sequence is the empty string that
\* read(1) returns at the end of the input, and a password is the sequence of
\* the code points typed.
\* ------------------------------------------------------------------------
\* the settings a terminal can be in when the function is called
Settings == {"cooked", "cbreak", "noecho"}

\* tty.setraw(fd)
setraw(settings) == "raw"

\* the most characters typed into one password
MaxTyped == 2

\* "\n", "\r", backspace and delete, Ctrl+C, Ctrl+D, a tab, the unit
\* separator, a space, the letter a, and the end of the input
Keys == {<<10>>, <<13>>, <<8>>, <<127>>, <<3>>, <<4>>, <<9>>, <<31>>, <<32>>, <<97>>, <<>>}

NoException == "none"

IdleReader ==
    [pc |-> "idle", at_call |-> "none", old_settings |-> "unset",
     password |-> <<>>, exception |-> NoException]

\* password = password[:-1], under if password:
Backspace(password) ==
    IF password # <<>> THEN SubSeq(password, 1, Len(password) - 1) ELSE password

\* elif ord(char) >= 32: ord raises TypeError on the empty string
Printable(reader, char) ==
    IF Len(char) # 1
    THEN [reader EXCEPT !.pc = "finally", !.exception = "TypeError"]
    ELSE IF char[1] >= 32
         THEN [reader EXCEPT !.password = @ \o char]
         ELSE reader

\* one pass of the while loop on the character read
Loop(reader, char) ==
    IF char = <<10>> \/ char = <<13>>
    THEN [reader EXCEPT !.pc = "finally"]
    ELSE IF char = <<127>> \/ char = <<8>>
    THEN [reader EXCEPT !.password = Backspace(@)]
    ELSE IF char = <<3>>
    THEN [reader EXCEPT !.pc = "finally", !.exception = "KeyboardInterrupt"]
    ELSE IF char = <<4>>
    THEN [reader EXCEPT !.pc = "finally"]
    ELSE Printable(reader, char)

\* a restoration placed after the try statement instead of in its finally
\* clause: an exception leaves the loop without it
tcsetattr_after_try(settings, reader) ==
    IF reader.exception = NoException THEN reader.old_settings ELSE settings

\* finally: termios.tcsetattr(fd, termios.TCSADRAIN, old_settings), the
\* settings of the terminal after it
tcsetattr_finally(settings, reader) == reader.old_settings

\* ------------------------------------------------------------------------
\* The state machine: one caller of one PasswordTester
\* ------------------------------------------------------------------------
VARIABLES
    fn,       \* the method called, "idle" between calls
    args,     \* its arguments
    outcome,  \* what it returned or raised
    calls,    \* the methods of the tester it called on the way, in order
    tester,   \* the tester shared by the callers of the web application
    frames,   \* the call of analyze_password each of them has in progress
    terminal, \* the settings of the terminal of standard input
    reader    \* the call of get_password_with_asterisks in progress

vars == <<fn, args, outcome, calls, tester, frames, terminal, reader>>

callVars == <<fn, args, outcome, calls>>

webVars == <<tester, frames>>

ttyVars == <<terminal, reader>>

NumCallers == 2

Callers == 1..NumCallers

NoValue == [kind |-> "none"]

Init ==
    /\ fn = "idle"
    /\ args = NoValue
    /\ outcome = NoValue
    /\ calls = <<>>
    /\ tester = PasswordTester
    /\ frames = [c \in Callers |-> IdleFrame]
    /\ terminal = "cooked"
    /\ reader = IdleReader

AnalyzePassword ==
    /\ fn = "idle"
    /\ UNCHANGED <<webVars, ttyVars>>
    /\ \E password \in Passwords \cup {Overlong} :
       \E result \in {analyze_password(password)} :
           /\ fn' = "analyze_password"
           /\ args' = [password |-> password]
           /\ outcome' = result.outcome
           /\ calls' = result.calls

AnalyzeCharacterSpace ==
    /\ fn = "idle"
    /\ UNCHANGED <<webVars, ttyVars>>
    /\ \E password \in Passwords \cup {Overlong} :
           /\ fn' = "analyze_character_space"
           /\ args' = [password |-> password]
           /\ outcome' = Return(analyze_character_space(password))
           /\ calls' = <<>>

CalculateEntropy ==
    /\ fn = "idle"
    /\ UNCHANGED <<webVars, ttyVars>>
    /\ \E password \in Passwords :
       \E character_space \in
              CharacterSpaces \cup {analyze_character_space(password)} :
           /\ fn' = "calculate_entropy"
           /\ args' = [password |-> password, character_space |-> character_space]
           /\ outcome' = Return(calculate_entropy(password, character_space))
           /\ calls' = <<>>

GetComplexityScore ==
    /\ fn = "idle"
    /\ UNCHANGED <<webVars, ttyVars>>
    /\ \E entropy \in Entropies :
           /\ fn' = "get_complexity_score"
           /\ args' = [entropy |-> entropy]
           /\ outcome' = Return(get_complexity_score(entropy))
           /\ calls' = <<>>

FormatTime ==
    /\ fn = "idle"
    /\ UNCHANGED <<webVars, ttyVars>>
    /\ \E seconds \in Seconds :
           /\ fn' = "format_time"
           /\ args' = [seconds |-> seconds]
           /\ outcome' = Return(format_time(seconds))
           /\ calls' = <<>>

CalculateBruteForceTime ==
    /\ fn = "idle"
    /\ UNCHANGED <<webVars, ttyVars>>
    /\ \E total_combinations \in Totals :
           /\ fn' = "calculate_brute_force_time"
           /\ args' = [total_combinations |-> total_combinations]
           /\ outcome' = calculate_brute_force_time(total_combinations)
           /\ calls' = <<>>

GenerateRecommendations ==
    /\ fn = "idle"
    /\ UNCHANGED <<webVars, ttyVars>>
    /\ \E password \in Passwords :
       \E entropy \in
              {0, Bits(60) - 1, Bits(60),
               calculate_entropy(password, analyze_character_space(password))} :
           /\ fn' = "generate_recommendations"
           /\ args' = [password |-> password, entropy |-> entropy]
           /\ outcome' = Return(generate_recommendations(password, entropy))
           /\ calls' = <<>>

\* the caller takes the outcome
Done ==
    /\ fn # "idle"
    /\ UNCHANGED <<webVars, ttyVars>>
    /\ fn' = "idle"
    /\ args' = NoValue
    /\ outcome' = NoValue
    /\ calls' = <<>>

Next ==
    \/ AnalyzePassword
    \/ AnalyzeCharacterSpace
    \/ CalculateEntropy
    \/ GetComplexityScore
    \/ FormatTime
    \/ CalculateBruteForceTime
    \/ GenerateRecommendations
    \/ Done

Spec == Init /\ [][Next]_vars

\* ------------------------------------------------------------------------
\* The web application: the requests handled at the same time call
\* analyze_password on the one tester of the module, and their statements
\* interleave in any order.
\* ------------------------------------------------------------------------
\* the passwords of the requests
WebPasswords == {"", "Abc1234!"}

\* analysis = tester.analyze_password(password): the call begins
Call(c) ==
    /\ frames[c].pc = "idle"
    /\ \E password \in WebPasswords :
           frames' = [frames EXCEPT ![c] = FrameOf(password)]
    /\ UNCHANGED <<tester, callVars, ttyVars>>

\* the call of caller c executes its next statement
Step(c) ==
    /\ frames[c].pc \notin {"idle", "raised", "returned"}
    /\ \E after \in {Execute(tester, frames[c])} :
           /\ tester' = after.self
           /\ frames' = [frames EXCEPT ![c] = after.frame]
    /\ UNCHANGED <<callVars, ttyVars>>

\* the caller takes the result, or the exception, of its call
Finish(c) ==
    /\ frames[c].pc \in {"raised", "returned"}
    /\ frames' = [frames EXCEPT ![c] = IdleFrame]
    /\ UNCHANGED <<tester, callVars, ttyVars>>

NextShared ==
    \E c \in Callers : Call(c) \/ Step(c) \/ Finish(c)

SpecShared == Init /\ [][NextShared]_vars

\* ------------------------------------------------------------------------
\* The command line: get_password_with_asterisks reads a password from a
\* terminal, one character at a time.
\* ------------------------------------------------------------------------
\* the user changes the settings of the terminal between two calls
Stty ==
    /\ reader.pc = "idle"
    /\ \E settings \in Settings \ {terminal} : terminal' = settings
    /\ UNCHANGED <<reader, callVars, webVars>>

\* the call: print(prompt), password = "", fd = sys.stdin.fileno()
GetPasswordWithAsterisks ==
    /\ reader.pc = "idle"
    /\ reader' = [IdleReader EXCEPT !.pc = "tcgetattr", !.at_call = terminal]
    /\ UNCHANGED <<terminal, callVars, webVars>>

\* old_settings = termios.tcgetattr(fd)
TcGetAttr ==
    /\ reader.pc = "tcgetattr"
    /\ reader' = [reader EXCEPT !.pc = "setraw", !.old_settings = terminal]
    /\ UNCHANGED <<terminal, callVars, webVars>>

\* try: tty.setraw(fd)
SetRaw ==
    /\ reader.pc = "setraw"
    /\ terminal' = setraw(terminal)
    /\ reader' = [reader EXCEPT !.pc = "read"]
    /\ UNCHANGED <<callVars, webVars>>

\* char = sys.stdin.read(1) and the pass of the loop on it
ReadChar ==
    /\ reader.pc = "read"
    /\ \E char \in Keys :
       \E after \in {Loop(reader, char)} :
           /\ Len(after.password) <= MaxTyped
           /\ reader' = after
    /\ UNCHANGED <<terminal, callVars, webVars>>

\* the finally clause, then print() and return password, or the exception
\* goes on to the caller
Finally ==
    /\ reader.pc = "finally"
    /\ terminal' = tcsetattr_finally(terminal, reader)
    /\ reader' = [reader EXCEPT !.pc =
                      IF reader.exception = NoException
                      THEN "returned" ELSE "propagated"]
    /\ UNCHANGED <<callVars, webVars>>

\* the caller takes the password, or the exception
Leave ==
    /\ reader.pc \in {"returned", "propagated"}
    /\ reader' = IdleReader
    /\ UNCHANGED <<terminal, callVars, webVars>>

NextTerminal ==
    \/ Stty
    \/ GetPasswordWithAsterisks
    \/ TcGetAttr
    \/ SetRaw
    \/ ReadChar
    \/ Finally
    \/ Leave

SpecTerminal == Init /\ [][NextTerminal]_vars

\* ------------------------------------------------------------------------
\* Properties.  Each is stated on the state in which a call has run and its
\* caller has not yet taken the outcome: fn names the method, args holds its
\* arguments and outcome what it returned or raised.
\* ------------------------------------------------------------------------
\* the password has a character of chars
Contains(password, chars) ==
    \E i \in 1..Len(password), j \in 1..Len(chars) :
        SubSeq(password, i, i) = SubSeq(chars, j, j)

Max0(n) == IF n > 0 THEN n ELSE 0

EndsWith(s, suffix) ==
    /\ Len(s) >= Len(suffix)
    /\ SubSeq(s, Len(s) - Len(suffix) + 1, Len(s)) = suffix

\* C1: analyze_password called with the empty string raises ValueError
\* "Password cannot be empty" before it has called any analysis step, and
\* returns no analysis.
EmptyPasswordIsRejected ==
    (fn = "analyze_password" /\ args.password = "")
        => /\ outcome = Raise("ValueError", "Password cannot be empty")
           /\ calls = <<>>

EmptyPasswordWasPassed ==
    /\ fn = "analyze_password"
    /\ args.password = ""
    /\ outcome.kind = "raise"

\* C2: for every non-empty password analyze_password returns an analysis; no
\* step raises, however large character_space ** length is.
NonEmptyPasswordIsAnalyzed ==
    (fn = "analyze_password" /\ args.password # "") => outcome.kind = "return"

\* C3: analyze_character_space returns the sum of the sizes (26, 26, 10, 26, 1)
\* of exactly the classes that have a member in the password, each counted
\* once, and so 0 when no class has one.
SizesOfClassesPresent(password) ==
    (IF Contains(password, "abcdefghijklmnopqrstuvwxyz") THEN 26 ELSE 0)
    + (IF Contains(password, "ABCDEFGHIJKLMNOPQRSTUVWXYZ") THEN 26 ELSE 0)
    + (IF Contains(password, "0123456789") THEN 10 ELSE 0)
    + (IF Contains(password, "!@#$%^&*()_+-=[]{}|;:,.<>?") THEN 26 ELSE 0)
    + (IF Contains(password, " ") THEN 1 ELSE 0)

CharacterSpaceSumsClassesPresent ==
    fn = "analyze_character_space"
        => outcome = Return(SizesOfClassesPresent(args.password))

ClassesCountedOnce ==
    /\ fn = "analyze_character_space"
    /\ args.password = "Password123"
    /\ outcome = Return(62)

\* C4 as the spec states it: the character_space of every analysis is one of
\* 0, 26, 36, 52, 62, 63, 77, 78, 88, 89.
CharacterSpaceInListedSet ==
    (fn = "analyze_password" /\ outcome.kind = "return")
        => outcome.value.character_space
               \in {0, 26, 36, 52, 62, 63, 77, 78, 88, 89}

\* C4: the character_space of every analysis is the sum of a subset of the
\* class sizes 26, 26, 10, 26, 1: one of the sixteen numbers 26 * k + r with
\* k in 0..3 and r in {0, 1, 10, 11}.
CharacterSpaceIsSubsetSum ==
    (fn = "analyze_password" /\ outcome.kind = "return")
        => outcome.value.character_space
               \in {0, 1, 10, 11, 26, 27, 36, 37, 52, 53, 62, 63, 78, 79, 88, 89}

DigitsOnlyAnalyzed ==
    /\ fn = "analyze_password"
    /\ args.password = "123456"
    /\ outcome.kind = "return"
    /\ outcome.value.character_space = 10

\* C5: the pattern penalty of calculate_entropy is, summed over the patterns,
\* 0.5 times the number of password characters that the matched occurrences
\* of the pattern cover.
CoveredCharacters(ms) == SumRange([k \in 1..Len(ms) |-> ms[k].len], 1, Len(ms))

CoveredPenalty(password) ==
    SumRange([k \in 1..Len(common_patterns) |->
                 5 * CoveredCharacters(Matches(common_patterns[k], password))],
             1, Len(common_patterns))

PenaltyCountsCoveredCharacters ==
    (fn = "calculate_entropy" /\ args.character_space # 0 /\ args.password # "")
        => outcome = Return(Max0(base_entropy(args.password, args.character_space)
                                 - CoveredPenalty(args.password)
                                 - repetition_penalty(args.password)))

\* C6: calculate_entropy returns a value >= 0: 0 when the character space is
\* 0 or the password is empty, and otherwise base entropy minus pattern
\* penalty minus repetition penalty, or 0 when that is negative.
EntropyIsFlooredDifference ==
    fn = "calculate_entropy"
        => /\ outcome.kind = "return"
           /\ outcome.value >= 0
           /\ outcome.value =
                  IF args.character_space = 0 \/ args.password = "" THEN 0
                  ELSE Max0(base_entropy(args.password, args.character_space)
                            - pattern_penalty(common_patterns, args.password)
                            - repetition_penalty(args.password))

EntropyWasFloored ==
    /\ fn = "calculate_entropy"
    /\ args.password = "aaa"
    /\ args.character_space = 1
    /\ pattern_penalty(common_patterns, args.password)
           + repetition_penalty(args.password) > 0
    /\ outcome = Return(0)

\* C7: get_complexity_score gives the label of the bracket of the entropy,
\* the brackets being cut at 28, 36, 60 and 128 bits with each threshold in the
\* bracket above it; the label never goes down when the entropy goes up.
Scores == <<"Very Weak", "Weak", "Medium", "Strong", "Very Strong">>

ScoreRank(score) == CHOOSE k \in 1..Len(Scores) : Scores[k] = score

ThresholdsReached(entropy) == {t \in {28, 36, 60, 128} : entropy >= 10 * t}

ScoreFollowsThresholds ==
    fn = "get_complexity_score"
        => /\ outcome = Return(Scores[1 + Cardinality(ThresholdsReached(args.entropy))])
           /\ args.entropy > 0
                  => ScoreRank(get_complexity_score(args.entropy - 1))
                         <= ScoreRank(outcome.value)

ThresholdScored ==
    /\ fn = "get_complexity_score"
    /\ args.entropy = 10 * 28
    /\ outcome = Return("Weak")

\* C8: format_time takes the unit from the bracket of seconds, the brackets
\* being cut at 1, 60, 3600, 86400, 31,536,000 and 31,536,000,000 with each
\* breakpoint in the bracket above it: seconds, seconds, minutes, hours, days,
\* years, and past the last the text "Practically uncrackable (> 1000 years)".
TimeUnits ==
    <<" seconds", " seconds", " minutes", " hours", " days", " years",
      "Practically uncrackable (> 1000 years)">>

BreakpointsReached(seconds) ==
    {t \in Breakpoints : BigLeq(BigMul(seconds.den, t), seconds.num)}

UnitFollowsBreakpoints ==
    fn = "format_time"
        => /\ outcome.kind = "return"
           /\ EndsWith(outcome.value,
                       TimeUnits[1 + Cardinality(BreakpointsReached(args.seconds))])
           /\ (outcome.value = "Practically uncrackable (> 1000 years)")
                  <=> (Cardinality(BreakpointsReached(args.seconds)) = 6)

BreakpointFormatted ==
    /\ fn = "format_time"
    /\ args.seconds = [num |-> BigMul(BigOf(31536000), BigOf(1000)),
                       den |-> BigOf(1000)]
    /\ outcome = Return("1.0 years")

\* C9: a mapping returned by calculate_brute_force_time, and so the
\* brute_force_times of an analysis, has exactly the keys basic_cpu,
\* modern_cpu, gpu_single, gpu_cluster, quantum_future, in this order, each
\* with a non-empty string: the format of (total_combinations // 2) divided
\* by the attempts per second of the tier (10^6, 10^8, 10^10, 10^12, 10^15).
Tiers ==
    <<[name |-> "basic_cpu", exponent |-> 6],
      [name |-> "modern_cpu", exponent |-> 8],
      [name |-> "gpu_single", exponent |-> 10],
      [name |-> "gpu_cluster", exponent |-> 12],
      [name |-> "quantum_future", exponent |-> 15]>>

TimesOfFiveTiers(times, total_combinations) ==
    /\ Len(times) = Len(Tiers)
    /\ \A i \in 1..Len(Tiers) :
           /\ times[i].key = Tiers[i].name
           /\ times[i].value # ""
           /\ times[i].value =
                  format_time(TrueDivide(BigHalf(total_combinations),
                                         BigPow(BigOf(10), Tiers[i].exponent)).value)

BruteForceTimesHaveFiveTiers ==
    /\ (fn = "calculate_brute_force_time" /\ outcome.kind = "return")
           => TimesOfFiveTiers(outcome.value, args.total_combinations)
    /\ (fn = "analyze_password" /\ outcome.kind = "return")
           => TimesOfFiveTiers(outcome.value.brute_force_times,
                               outcome.value.total_combinations)

MillionCombinationsTimed ==
    /\ fn = "calculate_brute_force_time"
    /\ args.total_combinations = BigPow(BigOf(10), 6)
    /\ outcome.kind = "return"
    /\ outcome.value[1] = [key |-> "basic_cpu", value |-> "0.500 seconds"]
    /\ outcome.value[5] = [key |-> "quantum_future", value |-> "0.000 seconds"]

\* C10: the list generate_recommendations returns has no string twice and
\* keeps the order of the checks (length < 12, no lowercase, no uppercase, no
\* digit, no special character, predictable pattern, entropy < 60); an advisory
\* is in it exactly when its condition holds, the pattern warning once however
\* many patterns match.
Advisories ==
    <<"Use at least 12 characters", "Add lowercase letters",
      "Add uppercase letters", "Add numbers", "Add special characters",
      "Avoid predictable patterns and sequences",
      "Increase complexity for better security">>

Advised(k, password, entropy) ==
    CASE k = 1 -> Len(password) < 12
      [] k = 2 -> ~Contains(password, "abcdefghijklmnopqrstuvwxyz")
      [] k = 3 -> ~Contains(password, "ABCDEFGHIJKLMNOPQRSTUVWXYZ")
      [] k = 4 -> ~Contains(password, "0123456789")
      [] k = 5 -> ~Contains(password, "!@#$%^&*()_+-=[]{}|;:,.<>?")
      [] k = 6 -> \E p \in 1..Len(common_patterns) :
                      Matches(common_patterns[p], password) # <<>>
      [] k = 7 -> entropy < 10 * 60

Messages == Advisories \o <<"Your password has good complexity!">>

MessageRank(message) == CHOOSE k \in 1..Len(Messages) : Messages[k] = message

AdvisoriesInOrder(recommendations, password, entropy) ==
    /\ \A i \in 1..Len(recommendations) :
           \E k \in 1..Len(Messages) : recommendations[i] = Messages[k]
    /\ \A i, j \in 1..Len(recommendations) :
           i < j => MessageRank(recommendations[i]) < MessageRank(recommendations[j])
    /\ \A k \in 1..Len(Advisories) :
           (\E i \in 1..Len(recommendations) : recommendations[i] = Advisories[k])
               <=> Advised(k, password, entropy)

RecommendationsDistinctInOrder ==
    fn = "generate_recommendations"
        => /\ outcome.kind = "return"
           /\ AdvisoriesInOrder(outcome.value, args.password, args.entropy)

TwoPatternsWarnedOnce ==
    /\ fn = "generate_recommendations"
    /\ args.password = "1234"
    /\ args.entropy = 0
    /\ Matches(common_patterns[1], args.password) # <<>>
    /\ Matches(common_patterns[4], args.password) # <<>>
    /\ outcome = Return(<<"Use at least 12 characters", "Add lowercase letters",
                          "Add uppercase letters", "Add special characters",
                          "Avoid predictable patterns and sequences",
                          "Increase complexity for better security">>)

\* C11: the list generate_recommendations returns is never empty; "Your
\* password has good complexity!" is in it exactly when none of the seven
\* advisory conditions holds, and then it is the whole list.
NoAdvisoryApplies(password, entropy) ==
    \A k \in 1..Len(Advisories) : ~Advised(k, password, entropy)

GoodComplexityOnlyAlone ==
    fn = "generate_recommendations"
        => /\ outcome.kind = "return"
           /\ Len(outcome.value) >= 1
           /\ (\E i \in 1..Len(outcome.value) :
                   outcome.value[i] = "Your password has good complexity!")
                  <=> NoAdvisoryApplies(args.password, args.entropy)
           /\ NoAdvisoryApplies(args.password, args.entropy)
                  => outcome.value = <<"Your password has good complexity!">>
           /\ (\E i \in 1..Len(outcome.value) :
                   outcome.value[i] = "Your password has good complexity!")
                  => Len(outcome.value) = 1

GoodComplexityReturned ==
    /\ fn = "generate_recommendations"
    /\ args.password = "MyS3cur3P@ssw0rd!"
    /\ args.entropy >= 10 * 60
    /\ NoAdvisoryApplies(args.password, args.entropy)
    /\ outcome = Return(<<"Your password has good complexity!">>)

\* C12: whatever the interleaving of the calls that share the tester, a call
\* of analyze_password ends with the result of the same call run alone, so
\* two calls with the same password end with the same result, and the tester
\* stays as it was constructed.
ResultAlone == [password \in WebPasswords |-> analyze_password(password).outcome]

Ended(c) == frames[c].pc \in {"raised", "returned"}

SharedCallsAreIndependent ==
    /\ tester = PasswordTester
    /\ \A c \in Callers :
           Ended(c) => frames[c].result = ResultAlone[frames[c].password]
    /\ \A c, d \in Callers :
           (Ended(c) /\ Ended(d) /\ frames[c].password = frames[d].password)
               => frames[c].result = frames[d].result

CallEndedBesideAnother ==
    /\ frames[1].pc = "returned"
    /\ frames[1].result.kind = "return"
    /\ frames[2].pc = "recommendations"
    /\ frames[2].password = frames[1].password
    /\ tester = PasswordTester

\* C13: on the path of Unix, get_password_with_asterisks leaves the terminal
\* as it found it however the input loop ends.  When the function has
\* returned (Enter, Ctrl+D) or an exception has left it (the
\* KeyboardInterrupt of Ctrl+C, the TypeError of ord on the end of the
\* input), the terminal has the settings it had at the call, which
\* old_settings saved, and is not raw; the terminal is raw only from
\* tty.setraw to the finally clause.
Left == reader.pc \in {"returned", "propagated"}

TerminalRestoredOnEveryExit ==
    /\ Left => /\ terminal = reader.at_call
               /\ terminal = reader.old_settings
               /\ terminal # setraw(reader.at_call)
    /\ terminal = setraw(terminal) => reader.pc \in {"read", "finally"}
    /\ reader.pc \in {"read", "finally"} => terminal = setraw(reader.at_call)

\* Ctrl+C after a character was typed on a terminal that was not in its
\* first settings: the KeyboardInterrupt has left the function
InterruptLeftWithTerminalRestored ==
    /\ reader.pc = "propagated"
    /\ reader.exception = "KeyboardInterrupt"
    /\ reader.password = <<97>>
    /\ reader.at_call = "cbreak"
    /\ terminal = "cbreak"

====
